---- MODULE Spec2Model ----
(***************************************************************************)
(* The tritonbench benchmark runner (run.py): argument parsing, the batch  *)
(* loop of run() under the gpu_lockdown scope, and the per-operator        *)
(* controller _run() with its try/finally reporting block.                 *)
(*                                                                         *)
(* Strings that the code inspects character by character (the --op value,  *)
(* split on commas) are sequences of one-character strings; an operator    *)
(* name is such a sequence too.  Python's None and "" are both falsy and   *)
(* args.op is only ever tested for truth, split or overwritten, so both    *)
(* are the empty sequence here.                                            *)
(***************************************************************************)
EXTENDS Naturals, Sequences, FiniteSets, TLC

VARIABLES
    argv,       \* the list run() was called with: <<>> is [], <<r>> a list whose options are r
    sysargv,    \* sys.argv[1:], as the options it holds
    args,       \* the argparse Namespace of run() and _run() (shared, mutated)
    parsed,     \* the Namespace exactly as parse_known_args returned it (history)
    pc,         \* position in run() / _run()
    exc,        \* the exception in flight, "none" when there is none
    outcome,    \* how run() ended: "none" while running
    telemetry,  \* calls of usage_report_logger
    ci_runs,    \* calls of run_ci
    held,       \* the hardware operating point is pinned
    acquired,   \* entries of the gpu_lockdown scope
    released,   \* exits of the gpu_lockdown scope
    ops,        \* the resolved operator list of run()
    idx,        \* entries of ops the for loop has taken so far
    handed,     \* args.op of every call of _run, in call order (history)
    active,     \* indexes of the calls of _run that have not ended (history)
    cur,        \* what the current call of _run has done so far (history)
    runRaised   \* indexes of the entries whose opbench.run raised (history)

vars == <<argv, sysargv, args, parsed, pc, exc, outcome, telemetry, ci_runs,
          held, acquired, released, ops, idx, handed, active, cur, runRaised>>

\* The longest operator list an --op value names.
MaxOps == 3

Modes == {"fwd", "bwd", "fwd_bwd", "fwd_no_grad"}

OpNames == {<<"a">>, <<"b">>}

CollectionNames == {"default", "liger"}

----------------------------------------------------------------------------
\* Pure functions of the code.

\* ",".join(names): the --op value that names the list.
RECURSIVE Join(_)
Join(names) ==
    IF names = <<>> THEN <<>>
    ELSE IF Len(names) = 1 THEN names[1]
    ELSE names[1] \o <<",">> \o Join(Tail(names))

\* str.split(","): the pieces between the commas, in order, empty ones kept.
RECURSIVE Split(_)
Split(s) ==
    LET commas == {k \in 1..Len(s) : s[k] = ","}
    IN  IF commas = {} THEN <<s>>
        ELSE LET k == CHOOSE c \in commas : \A d \in commas : c <= d
             IN  <<SubSeq(s, 1, k - 1)>> \o Split(SubSeq(s, k + 1, Len(s)))

\* list_operators_by_collection: the ordered names of a collection.
CollectionOps(c) ==
    IF c = "default" THEN << <<"a">>, <<"b">> >> ELSE << <<"b">>, <<"a">> >>

\* What argparse makes of the options of a list: store_true flags are FALSE
\* when absent, --op is None, --op-collection "default", --mode "fwd";
\* --warmup and --iter have no type, so a given value stays the string given
\* and an absent one is the imported default.
Parse(a) ==
    [ op              |-> IF a.op = {} THEN <<>> ELSE CHOOSE s \in a.op : TRUE,
      op_collection   |-> IF a.op_collection = "absent" THEN "default"
                          ELSE a.op_collection,
      mode            |-> IF a.mode = "absent" THEN "fwd" ELSE a.mode,
      bwd             |-> a.bwd,
      fwd_bwd         |-> a.fwd_bwd,
      fwd_no_grad     |-> a.fwd_no_grad,
      csv             |-> a.csv,
      dump_csv        |-> a.dump_csv,
      skip_print      |-> a.skip_print,
      plot            |-> a.plot,
      ci              |-> a.ci,
      keep_going      |-> a.keep_going,
      gpu_lockdown    |-> a.gpu_lockdown,
      operator_loader |-> a.operator_loader,
      log_scuba       |-> a.log_scuba,
      warmup          |-> IF a.warmup = "absent" THEN "DEFAULT_WARMUP"
                          ELSE a.warmup,
      iter            |-> IF a.iter = "absent" THEN "DEFAULT_RUN_ITERS"
                          ELSE a.iter ]

\* A mutant of ResolveMode: the bwd flag is tested last.
ResolveModeBwdLast(a) ==
    LET m1 == IF a.fwd_bwd THEN "fwd_bwd" ELSE a.mode
        m2 == IF a.fwd_no_grad THEN "fwd_no_grad" ELSE m1
    IN  IF a.bwd THEN "bwd" ELSE m2

\* The three if statements of _run, in their order: each overwrites args.mode.
ResolveMode(a) ==
    LET m1 == IF a.fwd_bwd THEN "fwd_bwd" ELSE a.mode
        m2 == IF a.bwd THEN "bwd" ELSE m1
    IN  IF a.fwd_no_grad THEN "fwd_no_grad" ELSE m2

\* gpu_lockdown(enabled).__enter__: pins the operating point when enabled.
LockdownEnter(enabled) == enabled

\* gpu_lockdown.__exit__: restores the operating point.
LockdownExit == FALSE

----------------------------------------------------------------------------
\* The inputs.

DefaultArgv ==
    [ op |-> {}, op_collection |-> "absent", mode |-> "absent",
      bwd |-> FALSE, fwd_bwd |-> FALSE, fwd_no_grad |-> FALSE,
      csv |-> FALSE, dump_csv |-> FALSE, skip_print |-> FALSE, plot |-> FALSE,
      ci |-> FALSE, keep_going |-> FALSE, gpu_lockdown |-> FALSE,
      operator_loader |-> FALSE, log_scuba |-> FALSE,
      warmup |-> "absent", iter |-> "absent" ]

NameLists == UNION {[1..k -> OpNames] : k \in 1..MaxOps}

OpValues == {Join(l) : l \in NameLists}

\* Batches: every --op value, with the flags of the batch loop.
BatchArgvs ==
    {[DefaultArgv EXCEPT !.op = o, !.keep_going = k, !.gpu_lockdown = g,
                         !.operator_loader = l] :
        o \in {{}} \cup {{v} : v \in OpValues}, k \in BOOLEAN, g \in BOOLEAN,
        l \in BOOLEAN}

\* Every combination of the output flags.
SinkArgvs ==
    {[DefaultArgv EXCEPT !.op = {o}, !.skip_print = s, !.csv = c,
                         !.dump_csv = d, !.plot = p, !.log_scuba = u] :
        o \in {<<"a">>, <<"a", ",", "b">>}, s \in BOOLEAN, c \in BOOLEAN,
        d \in BOOLEAN, p \in BOOLEAN, u \in BOOLEAN}

\* Every combination of --mode and the three override flags.
ModeArgvs ==
    {[DefaultArgv EXCEPT !.op = {<<"a", ",", "b">>}, !.mode = m, !.fwd_bwd = fb,
                         !.bwd = b, !.fwd_no_grad = ng, !.operator_loader = l] :
        m \in Modes \cup {"absent"}, fb \in BOOLEAN, b \in BOOLEAN,
        ng \in BOOLEAN, l \in BOOLEAN}

\* The operator selection options.
SelectArgvs ==
    {[DefaultArgv EXCEPT !.op = o, !.op_collection = c, !.ci = i,
                         !.gpu_lockdown = g] :
        o \in {{}, {<<"a">>}, {<<"b", ",", "a">>}},
        c \in CollectionNames \cup {"absent"}, i \in BOOLEAN, g \in BOOLEAN}

\* The counts handed to opbench.run.
CountArgvs ==
    {[DefaultArgv EXCEPT !.op = {<<"a", ",", "b">>}, !.warmup = w, !.iter = i] :
        w \in {"absent", "5"}, i \in {"absent", "7"}}

Argvs ==
    BatchArgvs \cup SinkArgvs \cup ModeArgvs \cup SelectArgvs \cup CountArgvs

\* sys.argv[1:] of a process whose caller passes run() a list of its own.
SysArgvs == {DefaultArgv, [DefaultArgv EXCEPT !.op = {<<"a">>}, !.ci = TRUE]}

Fresh ==
    [ loadMode |-> "none", builtMode |-> "none", ran |-> "no",
      retrieved |-> FALSE, console |-> "none", scuba |-> FALSE,
      plotted |-> "no", dumped |-> "no", stdout |-> <<>>,
      ranWith |-> <<>> ]

Init ==
    /\ \/ argv = <<>> /\ sysargv \in Argvs
       \/ argv \in {<<r>> : r \in Argvs} /\ sysargv \in SysArgvs
    /\ args = Parse(DefaultArgv)
    /\ parsed = Parse(DefaultArgv)
    /\ pc = "run"
    /\ exc = "none"
    /\ outcome = "none"
    /\ telemetry = 0
    /\ ci_runs = 0
    /\ held = FALSE
    /\ acquired = 0
    /\ released = 0
    /\ ops = <<>>
    /\ idx = 0
    /\ handed = <<>>
    /\ active = {}
    /\ cur = Fresh
    /\ runRaised = {}

----------------------------------------------------------------------------
\* run()

\* run(), up to the usage report: an empty list stands for sys.argv[1:].
UsageReport ==
    /\ pc = "run"
    /\ argv' = IF argv = <<>> THEN <<sysargv>> ELSE argv
    /\ telemetry' = telemetry + 1
    /\ pc' = "get_parser"
    /\ UNCHANGED <<sysargv, args, parsed, exc, outcome, ci_runs, held, acquired,
                   released, ops, idx, handed, active, cur, runRaised>>

\* get_parser(), called without arguments: it parses sys.argv itself and
\* parser.error (SystemExit) refuses --op together with --ci there.
GetParser ==
    /\ pc = "get_parser"
    /\ LET own == Parse(sysargv)
       IN  IF own.op # <<>> /\ own.ci
           THEN /\ pc' = "done"
                /\ outcome' = "config_error"
                /\ exc' = "SystemExit"
           ELSE /\ pc' = "parse"
                /\ UNCHANGED <<outcome, exc>>
    /\ UNCHANGED <<argv, sysargv, args, parsed, telemetry, ci_runs, held,
                   acquired, released, ops, idx, handed, active, cur, runRaised>>

\* args, extra_args = parser.parse_known_args(args)
ParseArgs ==
    /\ pc = "parse"
    /\ args' = Parse(argv[1])
    /\ parsed' = args'
    /\ pc' = "ci"
    /\ UNCHANGED <<argv, sysargv, exc, outcome, telemetry, ci_runs, held,
                   acquired, released, ops, idx, handed, active, cur, runRaised>>

\* if args.ci: run_ci(); return
CheckCi ==
    /\ pc = "ci"
    /\ IF args.ci
       THEN /\ ci_runs' = ci_runs + 1
            /\ outcome' = "returned"
            /\ pc' = "done"
       ELSE /\ pc' = "ops"
            /\ UNCHANGED <<ci_runs, outcome>>
    /\ UNCHANGED <<argv, sysargv, args, parsed, exc, telemetry, held, acquired,
                   released, ops, idx, handed, active, cur, runRaised>>

\* ops = args.op.split(",") if args.op else the collection's list
ResolveOps ==
    /\ pc = "ops"
    /\ ops' = IF args.op # <<>> THEN Split(args.op)
              ELSE CollectionOps(args.op_collection)
    /\ pc' = "with"
    /\ UNCHANGED <<argv, sysargv, args, parsed, exc, outcome, telemetry, ci_runs,
                   held, acquired, released, idx, handed, active, cur, runRaised>>

\* with gpu_lockdown(args.gpu_lockdown): the scope is entered
Acquire ==
    /\ pc = "with"
    /\ held' = LockdownEnter(args.gpu_lockdown)
    /\ acquired' = acquired + 1
    /\ pc' = "for"
    /\ UNCHANGED <<argv, sysargv, args, parsed, exc, outcome, telemetry, ci_runs,
                   released, ops, idx, handed, active, cur, runRaised>>

\* A mutant of NextOp: the loop runs over the list from its end.
NextOpReversed == ops[Len(ops) - idx]

\* The entry the for loop takes next.
NextOp == ops[idx + 1]

\* A mutant of For: every entry gets a fresh copy of the parsed Namespace.
ForWithFreshConfig ==
    /\ pc = "for"
    /\ IF idx < Len(ops)
       THEN /\ idx' = idx + 1
            /\ args' = [parsed EXCEPT !.op = NextOp]
            /\ handed' = Append(handed, args'.op)
            /\ active' = active \cup {idx'}
            /\ cur' = Fresh
            /\ pc' = "load"
       ELSE /\ pc' = "exit"
            /\ UNCHANGED <<idx, args, handed, active, cur>>
    /\ UNCHANGED <<argv, sysargv, parsed, exc, outcome, telemetry, ci_runs, held,
                   acquired, released, ops, runRaised>>

\* for op in ops: args.op = op; _run(args, extra_args) is called, or the
\* loop ends and leaves the with block
For ==
    /\ pc = "for"
    /\ IF idx < Len(ops)
       THEN /\ idx' = idx + 1
            /\ args' = [args EXCEPT !.op = NextOp]
            /\ handed' = Append(handed, args'.op)
            /\ active' = active \cup {idx'}
            /\ cur' = Fresh
            /\ pc' = "load"
       ELSE /\ pc' = "exit"
            /\ UNCHANGED <<idx, args, handed, active, cur>>
    /\ UNCHANGED <<argv, sysargv, parsed, exc, outcome, telemetry, ci_runs, held,
                   acquired, released, ops, runRaised>>

\* A mutant of Propagate: the exception leaves run() past the scope's exit.
PropagateNoExit(e) ==
    /\ exc' = e
    /\ active' = {}
    /\ pc' = "done"

\* A mutant of Propagate: the for loop catches what leaves _run and goes on
\* with the next entry.
PropagateCaughtByLoop(e) ==
    /\ exc' = e
    /\ active' = {}
    /\ pc' = "for"

\* An exception leaves _run: nothing in the for loop catches it, so it
\* unwinds to the with statement, whose __exit__ runs.
Propagate(e) ==
    /\ exc' = e
    /\ active' = {}
    /\ pc' = "exit"

\* leaving the with block, normally or by an exception: __exit__ runs, and
\* run() returns or the exception reaches its caller
Exit ==
    /\ pc = "exit"
    /\ held' = LockdownExit
    /\ released' = released + 1
    /\ outcome' = IF exc = "none" THEN "returned" ELSE "raised"
    /\ pc' = "done"
    /\ UNCHANGED <<argv, sysargv, args, parsed, exc, telemetry, ci_runs, acquired,
                   ops, idx, handed, active, cur, runRaised>>

----------------------------------------------------------------------------
\* _run()

\* Opbench = load_opbench_by_name_from_loader(args) or load_opbench_by_name(args.op):
\* the loader is handed the whole Namespace, the registry the name alone.
Load ==
    /\ pc = "load"
    /\ cur' = [cur EXCEPT !.loadMode =
                  IF args.operator_loader THEN args.mode ELSE "registry"]
    /\ \E ok \in BOOLEAN :
          IF ok THEN pc' = "mode" /\ UNCHANGED <<exc, active>>
          ELSE Propagate("load")
    /\ UNCHANGED <<argv, sysargv, args, parsed, outcome, telemetry, ci_runs, held,
                   acquired, released, ops, idx, handed, runRaised>>

\* A mutant of SetMode: an override flag is cleared once it is applied.
SetModeConsumingFlags ==
    /\ pc = "mode"
    /\ args' = [args EXCEPT !.mode = ResolveMode(args), !.fwd_bwd = FALSE,
                            !.bwd = FALSE, !.fwd_no_grad = FALSE]
    /\ pc' = "construct"
    /\ UNCHANGED <<argv, sysargv, parsed, exc, outcome, telemetry, ci_runs, held,
                   acquired, released, ops, idx, handed, active, cur, runRaised>>

\* A mutant of SetMode: the three ifs come after the construction, too late
\* for the instance.
SetModeTooLate ==
    /\ pc = "mode"
    /\ pc' = "construct"
    /\ UNCHANGED <<argv, sysargv, args, parsed, exc, outcome, telemetry, ci_runs,
                   held, acquired, released, ops, idx, handed, active, cur,
                   runRaised>>

\* if args.fwd_bwd: ... if args.bwd: ... if args.fwd_no_grad: ...
SetMode ==
    /\ pc = "mode"
    /\ args' = [args EXCEPT !.mode = ResolveMode(args)]
    /\ pc' = "construct"
    /\ UNCHANGED <<argv, sysargv, parsed, exc, outcome, telemetry, ci_runs, held,
                   acquired, released, ops, idx, handed, active, cur, runRaised>>

\* opbench = Opbench(tb_args=args, extra_args=extra_args)
Construct ==
    /\ pc = "construct"
    /\ cur' = [cur EXCEPT !.builtMode = args.mode]
    /\ \E ok \in BOOLEAN :
          IF ok THEN pc' = "try" /\ UNCHANGED <<exc, active>>
          ELSE Propagate("construct")
    /\ UNCHANGED <<argv, sysargv, args, parsed, outcome, telemetry, ci_runs, held,
                   acquired, released, ops, idx, handed, runRaised>>

\* A mutant of AfterRun: the reporting follows the try block instead of
\* being its finally clause.
AfterRunNoFinally(raised) ==
    IF raised THEN Propagate("run")
    ELSE pc' = "output" /\ UNCHANGED <<exc, active>>

\* try: opbench.run(...) finally: ... -- the finally clause runs next whether
\* run() returned or raised; an exception of run() stays in flight meanwhile.
AfterRun(raised) ==
    /\ pc' = "output"
    /\ exc' = IF raised THEN "run" ELSE exc
    /\ UNCHANGED active

\* opbench.run(args.warmup, args.iter)
RunOp ==
    /\ pc = "try"
    /\ \E raised \in BOOLEAN :
          /\ cur' = [cur EXCEPT !.ran = IF raised THEN "raised" ELSE "ok",
                                !.ranWith = <<args.warmup, args.iter>>]
          /\ runRaised' = IF raised THEN runRaised \cup {idx} ELSE runRaised
          /\ AfterRun(raised)
    /\ UNCHANGED <<argv, sysargv, args, parsed, outcome, telemetry, ci_runs, held,
                   acquired, released, ops, idx, handed>>

\* metrics = opbench.output
Output ==
    /\ pc = "output"
    /\ \E ok \in BOOLEAN :
          IF ok THEN /\ cur' = [cur EXCEPT !.retrieved = TRUE]
                     /\ pc' = "print"
                     /\ UNCHANGED <<exc, active>>
          ELSE /\ Propagate("output")
               /\ UNCHANGED cur
    /\ UNCHANGED <<argv, sysargv, args, parsed, outcome, telemetry, ci_runs, held,
                   acquired, released, ops, idx, handed, runRaised>>

\* A mutant of ConsoleRender: --dump-csv turns the console render to CSV too.
ConsoleRenderDumpToo(a) == IF a.csv \/ a.dump_csv THEN "csv" ELSE "text"

\* metrics.write_csv_to_file(sys.stdout) if args.csv else print(metrics)
ConsoleRender(a) == IF a.csv THEN "csv" ELSE "text"

\* if not args.skip_print: the console render
PrintMetrics ==
    /\ pc = "print"
    /\ IF ~args.skip_print
       THEN \E ok \in BOOLEAN :
               IF ok
               THEN /\ cur' = [cur EXCEPT !.console = ConsoleRender(args),
                                          !.stdout = Append(@, ConsoleRender(args))]
                    /\ pc' = "scuba"
                    /\ UNCHANGED <<exc, active>>
               ELSE /\ cur' = [cur EXCEPT !.console = ConsoleRender(args)]
                    /\ Propagate("print")
       ELSE /\ pc' = "scuba"
            /\ UNCHANGED <<cur, exc, active>>
    /\ UNCHANGED <<argv, sysargv, args, parsed, outcome, telemetry, ci_runs, held,
                   acquired, released, ops, idx, handed, runRaised>>

\* if IS_FBCODE and args.log_scuba: log_benchmark(...)
LogScuba ==
    /\ pc = "scuba"
    /\ IF args.log_scuba
       THEN /\ cur' = [cur EXCEPT !.scuba = TRUE]
            /\ \E ok \in BOOLEAN :
                  IF ok THEN pc' = "plot" /\ UNCHANGED <<exc, active>>
                  ELSE Propagate("scuba")
       ELSE /\ pc' = "plot"
            /\ UNCHANGED <<cur, exc, active>>
    /\ UNCHANGED <<argv, sysargv, args, parsed, outcome, telemetry, ci_runs, held,
                   acquired, released, ops, idx, handed, runRaised>>

\* A mutant of PlotPropagates: no except clause around opbench.plot().
PlotPropagatesAll(r) == r # "ok"

\* except NotImplementedError: of what plot() can raise ("skip" is
\* NotImplementedError, "raised" anything else) only the latter propagates.
PlotPropagates(r) == r = "raised"

\* if args.plot: try: opbench.plot() except NotImplementedError: print(...)
Plot ==
    /\ pc = "plot"
    /\ IF args.plot
       THEN \E r \in {"ok", "skip", "raised"} :
               /\ cur' = [cur EXCEPT !.plotted = r,
                                     !.stdout = IF r = "skip" /\ ~PlotPropagates(r)
                                                THEN Append(@, "plot_skip") ELSE @]
               /\ IF PlotPropagates(r) THEN Propagate("plot")
                  ELSE pc' = "dump" /\ UNCHANGED <<exc, active>>
       ELSE /\ pc' = "dump"
            /\ UNCHANGED <<cur, exc, active>>
    /\ UNCHANGED <<argv, sysargv, args, parsed, outcome, telemetry, ci_runs, held,
                   acquired, released, ops, idx, handed, runRaised>>

\* A mutant of DumpReport: the file is written without a word.
DumpReportSilent == <<>>

\* print(f"[TritonBench] Dumped csv to {path}")
DumpReport == <<"dump_path">>

\* if args.dump_csv: os.makedirs(...); path = metrics.write_csv(...); print(...)
DumpCsv ==
    /\ pc = "dump"
    /\ IF args.dump_csv
       THEN \E r \in {"ok", "raised"} :
               /\ cur' = [cur EXCEPT !.dumped = r,
                                     !.stdout = IF r = "ok" THEN @ \o DumpReport
                                                ELSE @]
               /\ IF r = "raised" THEN Propagate("dump")
                  ELSE pc' = "return" /\ UNCHANGED <<exc, active>>
       ELSE /\ pc' = "return"
            /\ UNCHANGED <<cur, exc, active>>
    /\ UNCHANGED <<argv, sysargv, args, parsed, outcome, telemetry, ci_runs, held,
                   acquired, released, ops, idx, handed, runRaised>>

\* A mutant of Return: the lockdown scope is around the call of _run, inside
\* the loop, so it is left after every operator and entered again.
ReturnLeavingScope ==
    /\ pc = "return"
    /\ exc' = "none"
    /\ active' = active \ {idx}
    /\ held' = LockdownExit
    /\ released' = released + 1
    /\ pc' = "with"
    /\ UNCHANGED <<argv, sysargv, args, parsed, outcome, telemetry, ci_runs,
                   acquired, ops, idx, handed, cur, runRaised>>

\* return metrics, inside the finally clause: the return discards whatever
\* exception is in flight and _run ends normally.
Return ==
    /\ pc = "return"
    /\ exc' = "none"
    /\ active' = active \ {idx}
    /\ pc' = "for"
    /\ UNCHANGED <<argv, sysargv, args, parsed, outcome, telemetry, ci_runs, held,
                   acquired, released, ops, idx, handed, cur, runRaised>>

----------------------------------------------------------------------------

Next ==
    \/ UsageReport
    \/ GetParser
    \/ ParseArgs
    \/ CheckCi
    \/ ResolveOps
    \/ Acquire
    \/ For
    \/ Load
    \/ SetMode
    \/ Construct
    \/ RunOp
    \/ Output
    \/ PrintMetrics
    \/ LogScuba
    \/ Plot
    \/ DumpCsv
    \/ Return
    \/ Exit

Spec == Init /\ [][Next]_vars

----------------------------------------------------------------------------
\* Properties.

\* The options of the list run() works on: sys.argv[1:] stands in for [].
Given == IF argv = <<>> THEN sysargv ELSE argv[1]

\* The reporting block of the current call of _run is over: it ran to its
\* return, or an exception left it.
ReportingOver == cur.ran # "no" /\ pc \in {"return", "for", "exit", "done"}

\* C1: once the gpu_lockdown scope has been entered, its exit runs exactly
\* once per call of run(), whatever operators failed and however, and run()
\* ends with the operating point not pinned.
ReleasedExactlyOnce ==
    /\ released <= acquired
    /\ acquired <= 1
    /\ (pc = "done" /\ acquired = 1) => (released = 1 /\ ~held)
    /\ (pc # "done") => released = 0

\* C1 witness: lockdown requested, run() of every operator of a full batch
\* raised, and the call is over with its one release.
W_AllFailedReleased ==
    /\ pc = "done"
    /\ parsed.gpu_lockdown
    /\ Len(ops) = MaxOps
    /\ runRaised = 1..Len(ops)
    /\ acquired = 1
    /\ released = 1

\* The mode the precedence rule names: fwd_no_grad over bwd over fwd_bwd
\* over the base mode.
ModeByPrecedence(a) ==
    IF a.fwd_no_grad THEN "fwd_no_grad"
    ELSE IF a.bwd THEN "bwd"
    ELSE IF a.fwd_bwd THEN "fwd_bwd"
    ELSE a.mode

\* C2: right after the mode resolution of _run, args.mode is the one mode the
\* precedence rule names for the parsed base mode and override flags, and no
\* exception is in flight.
ModeFollowsPrecedence ==
    pc = "construct" =>
        /\ args.mode = ModeByPrecedence(parsed)
        /\ args.mode \in Modes
        /\ exc = "none"

\* C2 witness: --bwd and --fwd-bwd given with base mode fwd_no_grad; the
\* resolved mode is bwd.
W_BwdOverFwdBwd ==
    /\ pc = "construct"
    /\ parsed.bwd /\ parsed.fwd_bwd /\ ~parsed.fwd_no_grad
    /\ parsed.mode = "fwd_no_grad"
    /\ args.mode = "bwd"

\* C3 (as claimed): without keep-going, once _run is over for an operator
\* whose run() raised, that exception is on its way to the caller.
RunErrorPropagates ==
    (~parsed.keep_going /\ cur.ran = "raised" /\ pc \in {"for", "exit", "done"})
        => exc # "none"

\* C4 (as claimed): without keep-going, in a batch of several operators no
\* entry after one whose run() raised is handed to _run, and run() ends by
\* raising.
FailureStopsBatch ==
    (~parsed.keep_going /\ runRaised # {} /\ Len(ops) > 1) =>
        /\ \A k \in runRaised : idx <= k
        /\ pc = "done" => outcome = "raised"

\* C5 (as claimed): with keep-going, in a batch of several operators where
\* run() of exactly one raised and nothing else did (no exception reached the
\* with statement), every entry was attempted and run() still ends by raising.
KeepGoingStillFails ==
    (pc = "done" /\ parsed.keep_going /\ Cardinality(runRaised) = 1
        /\ exc = "none" /\ Len(ops) > 1) =>
        /\ idx = Len(ops)
        /\ outcome = "raised"

\* The console render the flags select.
ConsoleByFlags(a) ==
    IF a.skip_print THEN "none" ELSE IF a.csv THEN "csv" ELSE "text"

\* C6: once opbench.run has been called, whether it returned or raised, the
\* result is retrieved next, and when the reporting block runs to its end the
\* sinks the flags select have fired.
ReportedWhateverRunDid ==
    /\ (cur.ran # "no" /\ pc # "output") => (cur.retrieved \/ exc = "output")
    /\ (cur.ran # "no" /\ pc \in {"return", "for"}) =>
          /\ cur.retrieved
          /\ cur.console = ConsoleByFlags(args)
          /\ (cur.plotted \in {"ok", "skip"}) = args.plot
          /\ (cur.dumped = "ok") = args.dump_csv

\* C6 witness: run() raised and the CSV render, the plot and the CSV file
\* were all produced.
W_ReportedAfterRaise ==
    /\ cur.ran = "raised"
    /\ pc = "return"
    /\ cur.console = "csv"
    /\ cur.plotted = "ok"
    /\ cur.dumped = "ok"

\* C7 (as claimed): a list with both --op and --ci is refused: no CI sweep
\* starts, the lockdown scope is not entered, no operator is handed to _run,
\* and run() ends with the configuration error.
OpWithCiRejected ==
    (Given.op # {} /\ Given.ci) =>
        /\ ci_runs = 0
        /\ acquired = 0
        /\ idx = 0
        /\ pc = "done" => outcome = "config_error"

\* C8 (as claimed): a list with both --op and --op-collection is refused
\* before the lockdown scope is entered and before any operator is handed
\* to _run.
OpWithCollectionRejected ==
    (Given.op # {} /\ Given.op_collection # "absent") =>
        /\ acquired = 0
        /\ idx = 0
        /\ pc = "done" => outcome = "config_error"

\* C9: the names handed to _run are a prefix of the resolved list, which is
\* the --op value's names in the order given with every repetition kept (or
\* the collection's list); at most one call of _run is in progress; and when
\* the loop takes its next entry the previous one's output is complete.
SequentialInOrder ==
    /\ Cardinality(active) <= 1
    /\ idx <= Len(ops)
    /\ handed = SubSeq(ops, 1, idx)
    /\ acquired = 1 =>
          IF parsed.op # <<>> THEN Join(ops) = parsed.op
          ELSE ops = CollectionOps(parsed.op_collection)
    /\ (pc = "for" /\ idx > 0) =>
          /\ active = {}
          /\ cur.ran # "no"
          /\ cur.console = ConsoleByFlags(args)
          /\ (cur.plotted \in {"ok", "skip"}) = args.plot
          /\ (cur.dumped = "ok") = args.dump_csv

\* C9 witness: the list "b,a,b" has been worked through, in that order.
W_RepeatedNameInOrder ==
    /\ pc = "for"
    /\ idx = 3
    /\ handed = << <<"b">>, <<"a">>, <<"b">> >>

\* C10 (as claimed): once the result is retrieved and the reporting block is
\* over, each sink has fired exactly when its own flag says so.
SinksOnOwnFlagOnly ==
    (cur.retrieved /\ ReportingOver) =>
        /\ cur.console = ConsoleByFlags(args)
        /\ (cur.plotted # "no") = args.plot
        /\ (cur.dumped # "no") = args.dump_csv

\* C10 (amended): for every combination of the four flags the console render
\* is attempted exactly per skip-print and csv; plot() is attempted iff plot
\* is set and neither the console render nor log_benchmark raised; the CSV
\* file is attempted iff dump-csv is set and none of the console render,
\* log_benchmark and plot() raised (a NotImplementedError of plot() is caught
\* and does not count).
SinksInFixedOrder ==
    (cur.retrieved /\ ReportingOver) =>
        /\ cur.console = ConsoleByFlags(args)
        /\ (cur.plotted # "no") = (args.plot /\ exc \notin {"print", "scuba"})
        /\ (cur.dumped # "no") =
              (args.dump_csv /\ exc \notin {"print", "scuba", "plot"})

\* C10 witness: all four flags set; nothing on the console, plot() not
\* implemented, and the CSV file written all the same.
W_AllSinkFlags ==
    /\ pc = "return"
    /\ args.skip_print /\ args.csv /\ args.dump_csv /\ args.plot
    /\ cur.console = "none"
    /\ cur.plotted = "skip"
    /\ cur.dumped = "ok"

\* C11 (as claimed): with dump-csv and skip-print set (csv and plot unset) a
\* call of _run that runs to its return has written the CSV file and nothing
\* at all to the console.
DumpAloneSilent ==
    (pc = "return" /\ args.dump_csv /\ args.skip_print /\ ~args.csv
        /\ ~args.plot) =>
        /\ cur.dumped = "ok"
        /\ cur.stdout = <<>>

\* C11 (amended): with dump-csv and skip-print set (csv and plot unset) the
\* CSV file is written, no render of the metrics reaches the console, and
\* the one line on the console reports the path of the file; with csv and
\* dump-csv set (skip-print unset) the console gets the CSV render, then the
\* file is written (and its path reported).
DumpReportsPathOnly ==
    /\ (pc = "return" /\ args.dump_csv /\ args.skip_print /\ ~args.csv
          /\ ~args.plot) =>
          /\ cur.dumped = "ok"
          /\ cur.console = "none"
          /\ cur.stdout = <<"dump_path">>
    /\ (pc = "return" /\ args.dump_csv /\ args.csv /\ ~args.skip_print) =>
          /\ cur.dumped = "ok"
          /\ cur.console = "csv"
          /\ cur.stdout[1] = "csv"
          /\ cur.stdout[Len(cur.stdout)] = "dump_path"
          /\ \A k \in 1..Len(cur.stdout) : cur.stdout[k] # "text"

\* C11 witness: dump-csv with skip-print alone; the file is written and the
\* path line is all the console shows.
W_DumpWithSkipPrint ==
    /\ pc = "return"
    /\ args.dump_csv /\ args.skip_print /\ ~args.csv /\ ~args.plot
    /\ cur.dumped = "ok"
    /\ cur.stdout = <<"dump_path">>

\* C12: when plot() raised NotImplementedError the skip message is printed
\* and no exception comes of it: the CSV dump still follows its flag, the for
\* loop goes on to the remaining entries, and run() ends by raising only if
\* the CSV dump raised.
PlotSkipNotFatal ==
    cur.plotted = "skip" =>
        /\ \E k \in 1..Len(cur.stdout) : cur.stdout[k] = "plot_skip"
        /\ exc \in {"none", "run", "dump"}
        /\ (cur.dumped # "no") = args.dump_csv
              \/ pc = "dump"
        /\ (pc \in {"exit", "done"} /\ exc = "none") => idx = Len(ops)
        /\ pc = "done" => (outcome = "raised") = (exc = "dump")

\* C12 witness: plot() is not implemented for the first of two operators;
\* its CSV file is written and the loop is about to take the second.
W_PlotSkippedBatchGoesOn ==
    /\ pc = "for"
    /\ idx = 1
    /\ Len(ops) = 2
    /\ cur.plotted = "skip"
    /\ cur.dumped = "ok"
    /\ exc = "none"

\* C13 (as claimed): a resolution error ends the batch only when keep-going
\* is not set; with keep-going set it never reaches the with statement.
ResolutionErrorFollowsKeepGoing ==
    exc = "load" =>
        /\ ~parsed.keep_going
        /\ pc \in {"exit", "done"}

\* C14 (as claimed): with --ci and no --op in the list run() works on, no
\* operator list is resolved, the lockdown scope is not entered, _run is never
\* called and no sink fires, and run() ends having started the CI sweep
\* exactly once and returned.
CiShortCircuits ==
    (Given.ci /\ Given.op = {}) =>
        /\ ci_runs <= 1
        /\ ops = <<>>
        /\ acquired = 0
        /\ idx = 0
        /\ cur = Fresh
        /\ pc = "done" => (ci_runs = 1 /\ outcome = "returned")

\* The positions inside _run.
InRun ==
    pc \in {"load", "mode", "construct", "try", "output", "print", "scuba",
            "plot", "dump", "return"}

\* C15: the lockdown scope is entered at most once, only in a non-CI
\* invocation and only after the operator list is resolved and before any
\* entry is taken; it is live (entered, not left, pinned iff requested) at
\* every step of every operator and between operators; every non-CI
\* invocation that ran its batch has entered it exactly once.
ScopeLiveThroughBatch ==
    /\ acquired <= 1
    /\ released <= acquired
    /\ pc = "with" => (acquired = 0 /\ idx = 0 /\ Len(ops) > 0)
    /\ acquired = 1 => (~parsed.ci /\ Len(ops) > 0)
    /\ idx > 0 => acquired = 1
    /\ (InRun \/ pc = "for") =>
          /\ acquired = 1
          /\ released = 0
          /\ held = parsed.gpu_lockdown
    /\ (pc = "done" /\ outcome \in {"returned", "raised"} /\ ~parsed.ci) =>
          acquired = 1

\* C15 witness: lockdown requested; the second operator of a batch is being
\* run under the one acquisition made before the first.
W_SecondOpUnderSameScope ==
    /\ pc = "try"
    /\ idx = 2
    /\ parsed.gpu_lockdown
    /\ held
    /\ acquired = 1
    /\ released = 0

\* C16: the Namespace every operator instance is constructed with carries
\* the mode the precedence rule names, for the first entry and every later
\* one.
BuiltWithNormalizedMode ==
    cur.builtMode # "none" =>
        /\ cur.builtMode = ModeByPrecedence(parsed)
        /\ cur.builtMode = args.mode

\* C16 witness: base mode bwd with --fwd-no-grad; the first instance was
\* constructed with fwd_no_grad.
W_BuiltWithOverride ==
    /\ pc = "try"
    /\ idx = 1
    /\ parsed.mode = "bwd"
    /\ parsed.fwd_no_grad
    /\ cur.builtMode = "fwd_no_grad"

\* C17 (as claimed): the Namespace is never changed after parsing: at every
\* point it equals what parse_known_args returned.
ConfigReadOnly == args = parsed

\* C17 (amended): after parsing only two fields of the Namespace change: op,
\* which the for loop sets to the entry it takes, and mode, which _run sets
\* to the normalized mode; every other field (the flags, the collection, the
\* warmup and iteration counts) stays as parsed, and run() is handed the
\* counts as parsed.
OnlyOpAndModeChange ==
    /\ [args EXCEPT !.op = parsed.op, !.mode = parsed.mode] = parsed
    /\ args.mode \in {parsed.mode, ModeByPrecedence(parsed)}
    /\ args.op = parsed.op \/ (idx > 0 /\ args.op = ops[idx])
    /\ cur.ran # "no" => cur.ranWith = <<parsed.warmup, parsed.iter>>

\* C17 witness: run() of the second entry of a batch has been called; op and
\* mode both differ from the parsed ones.
W_OpAndModeChanged ==
    /\ pc = "output"
    /\ idx = 2
    /\ args.op # parsed.op
    /\ args.mode # parsed.mode

\* The steps of the reporting block that can raise, in their order.
ReportSteps == <<"output", "print", "scuba", "plot", "dump">>

\* The sinks of the current call that have fired, as positions in ReportSteps.
Fired ==
    {k \in 2..5 :
        \/ k = 2 /\ cur.console # "none"
        \/ k = 3 /\ cur.scuba
        \/ k = 4 /\ cur.plotted # "no"
        \/ k = 5 /\ cur.dumped # "no"}

\* C18: an exception raised by a step of the reporting block is the one in
\* flight from then on (also when run() had raised), no later sink of that
\* operator fires, _run is left and no further entry is taken, and run() ends
\* raising it with the lockdown scope left.
ReportErrorAborts ==
    \A k \in 1..5 :
        exc = ReportSteps[k] =>
            /\ pc \in {"exit", "done"}
            /\ active = {}
            /\ \A j \in Fired : j <= k
            /\ cur.ran # "no"
            /\ pc = "done" =>
                  /\ outcome = "raised"
                  /\ released = 1
                  /\ ~held

\* C18 witness: run() of the first of two operators raised, then the
\* console render raised; run() has ended raising the latter, with the CSV
\* dump requested but not done, the second entry untouched and the scope left.
W_RenderErrorReplacesRunError ==
    /\ pc = "done"
    /\ cur.ran = "raised"
    /\ exc = "print"
    /\ idx = 1
    /\ Len(ops) = 2
    /\ args.dump_csv
    /\ cur.dumped = "no"
    /\ released = 1

\* C19: under the loader strategy the resolver is handed the Namespace before
\* the mode is normalized: for the first entry it carries the parsed base
\* mode, for every later entry the normalized mode the previous call of _run
\* left; and once the first instance has been constructed args.mode is the
\* normalized mode for the rest of the batch.
LoaderSeesModeLeftBehind ==
    /\ (parsed.operator_loader /\ cur.loadMode # "none") =>
          cur.loadMode =
              IF idx = 1 THEN parsed.mode ELSE ModeByPrecedence(parsed)
    /\ (~parsed.operator_loader /\ cur.loadMode # "none") =>
          cur.loadMode = "registry"
    /\ (idx > 1 \/ (idx = 1 /\ cur.builtMode # "none")) =>
          args.mode = ModeByPrecedence(parsed)
    /\ (idx = 1 /\ pc \in {"load", "mode"}) => args.mode = parsed.mode

\* C19 witness: the loader strategy with --bwd and base mode fwd; the
\* resolver of the second entry was handed mode bwd.
W_SecondLoadSeesNormalized ==
    /\ pc = "mode"
    /\ idx = 2
    /\ parsed.operator_loader
    /\ parsed.mode = "fwd"
    /\ parsed.bwd
    /\ cur.loadMode = "bwd"

====
